---- MODULE Spec2Model ----
(***************************************************************************)
(* Model of charts.build_temperature_figure (src/charts.py) and of the     *)
(* tables of the storage layer (src/db.py), with the chart builder and the *)
(* delete and undo handlers of the app (src/app.py).                       *)
(*                                                                         *)
(* Timestamps are whole minutes since midnight of the first day (the data  *)
(* layer stores minute precision).  Temperatures and y-axis values are     *)
(* hundredths of a degree Celsius, so 39.8 is 3980 and 0.35 is 35.         *)
(* A Python value that may be None is a sequence of length 0 or 1.         *)
(***************************************************************************)
EXTENDS Integers, Sequences, FiniteSets, TLC

\* ------------------------------------------------------------------ bounds
MaxMeds == 4
MaxReadings == 2
MaxMedsWithReadings == 1
MaxClockMeds == 2
MaxTicks == 1
ClockStep == 45
MaxDbRows == 2
MaxNameIds == 2
MaxAppRows == 3

\* ------------------------------------------------------- program constants
TEMP_CRITICAL == 3980
y_min == 3600
y_max == 4100
window_minutes == 180
max_lanes == 3
lane_step == 35
label_base == 20
base_headroom == 80
floor_margin == 50
size_high == 10
size_normal == 6
minutes_per_hour == 60

\* ------------------------------------------------------------ input values
MedTimes == {20, 120, 200, 210, 380}
ReadingTimes == {60, 450}
ReadingTemps == {3970, 3980, 3990}

ReadingRow == [recorded_at : ReadingTimes, temperature_c : ReadingTemps]
MedNames == {"Paracetamol"}
DoseDescs == {<<"120 mg">>}
MedFields == [given_at : MedTimes, med_name : MedNames, dose_desc : DoseDescs]

\* The id column: the store's row ids, here the row's position in the input frame.
WithIds(rows) ==
    [k \in 1..Len(rows) |->
        [id |-> k, given_at |-> rows[k].given_at,
         med_name |-> rows[k].med_name, dose_desc |-> rows[k].dose_desc]]

SeqsUpTo(S, n) == UNION {[1..k -> S] : k \in 0..n}

\* A raw timestamp is the minute it denotes; NotATime stands for a string that
\* pandas cannot parse (such as "n/a").
NotATime == 0 - 1

\* inputs for the hover texts and labels: every kind of dose_desc (None, "",
\* a text) and a clock that may advance while the markers are built
ClockMedTimes == {20, 200, 380}
AllDoseDescs == {<<>>, <<"">>, <<"120 mg">>}
ClockMedFields == [given_at : ClockMedTimes, med_name : MedNames, dose_desc : AllDoseDescs]
NowValues == {205 * 60, 380 * 60 + 30, 390 * 60 + 30}
BuildTime == 205 * 60

\* the frames of the test module: readings at 10:00 and 12:00, a dose at 11:00
ScenarioReadings ==
    <<[recorded_at |-> 600, temperature_c |-> 3720],
      [recorded_at |-> 720, temperature_c |-> 3990]>>
ScenarioMeds ==
    WithIds(<<[given_at |-> 660, med_name |-> "Paracetamol", dose_desc |-> <<"120 mg">>]>>)

\* frames of at most one row each in which some timestamp cannot be parsed
MalformedReadings ==
    SeqsUpTo([recorded_at : {60, NotATime}, temperature_c : {3970}], 1)
MalformedMeds ==
    {WithIds(r) : r \in SeqsUpTo([given_at : {20, NotATime}, med_name : MedNames,
                                   dose_desc : DoseDescs], 1)}
HasNotATime(m_df, med_df) ==
    \/ \E k \in 1..Len(m_df) : m_df[k].recorded_at = NotATime
    \/ \E k \in 1..Len(med_df) : med_df[k].given_at = NotATime

VARIABLES
    measurements_df,   \* input: sequence of reading rows, in the caller's order
    medications_df,    \* input: sequence of medication rows, in the caller's order
    pc,                \* position in build_temperature_figure
    fig,               \* the figure under construction
    app_fig,           \* the figure app._build_temperature_figure builds from the same frames
    meds,              \* sorted copy of medications_df; each row keeps its input position
    lane_last_time,    \* per lane: <<>> (None) or <<t>>
    assigned_lanes,    \* lane index of each processed row of meds
    max_lane_used,     \* <<>> while the local is unbound, else <<n>>
    hover_x,
    hover_y,
    hover_texts,
    hover_ago,         \* relative-time text of each processed row
    now_reads,         \* the values pd.Timestamp.now() returned, in order of the reads
    error,             \* <<>> or the exception that ended the build
    now,               \* the wall clock, in seconds
    ticks_left,        \* how often the clock may still advance during the build
    measurements,      \* table measurements of data.db: a set of rows
    medications,       \* table medications of data.db: a set of rows
    medication_names,  \* table medication_names of data.db: a set of rows
    sqlite_sequence,   \* per table, the largest id AUTOINCREMENT has handed out
    last_call,         \* the last call into db.py: its name, arguments and outcome
    last_deleted,      \* st.session_state["last_deleted"]: <<>> (None) or <<payload>>
    history            \* history variable: the button pressed last, and the rows
                       \* as they were stored when the last delete removed them

chart_vars == <<measurements_df, medications_df, pc, fig, app_fig, meds, lane_last_time,
                assigned_lanes, max_lane_used, hover_x, hover_y, hover_texts,
                hover_ago, now_reads, error, now, ticks_left>>

db_vars == <<measurements, medications, medication_names, sqlite_sequence, last_call>>

app_vars == <<last_deleted, history>>

vars == <<chart_vars, db_vars, app_vars>>

\* ----------------------------------------------------------------- helpers
SeqMin(s) == CHOOSE x \in {s[k] : k \in 1..Len(s)} : \A j \in 1..Len(s) : x <= s[j]
SeqMax(s) == CHOOSE x \in {s[k] : k \in 1..Len(s)} : \A j \in 1..Len(s) : x >= s[j]

Column(df, name) == [k \in 1..Len(df) |-> df[k][name]]

\* pd.Timestamp.floor("H") and .ceil("H") on minute-precision timestamps
FloorHour(t) == t - (t % minutes_per_hour)
\* mutant of CeilHour: always the start of the next hour
CeilHour_AlwaysNext(t) == t - (t % minutes_per_hour) + minutes_per_hour

CeilHour(t) == IF t % minutes_per_hour = 0 THEN t ELSE FloorHour(t) + minutes_per_hour

\* cur.hour and cur.strftime("%H:%M")
HourOf(t) == (t \div minutes_per_hour) % 24
MinuteOf(t) == t % minutes_per_hour
TwoDigits(n) == IF n < 10 THEN "0" \o ToString(n) ELSE ToString(n)
StrfHHMM(t) == TwoDigits(HourOf(t)) \o ":" \o TwoDigits(MinuteOf(t))

EmptyFig ==
    [data |-> <<>>, shapes |-> <<>>, annotations |-> <<>>, yaxis_range |-> <<>>,
     yaxis_title |-> <<>>]

Init ==
    /\ \/ /\ measurements_df \in SeqsUpTo(ReadingRow, MaxReadings)
          /\ medications_df \in {WithIds(r) : r \in SeqsUpTo(MedFields, MaxMedsWithReadings)}
          /\ now = BuildTime /\ ticks_left = 0
       \/ /\ measurements_df = <<>>
          /\ medications_df \in {WithIds(r) : r \in SeqsUpTo(MedFields, MaxMeds)}
          /\ now = BuildTime /\ ticks_left = 0
       \/ /\ measurements_df = <<>>
          /\ medications_df \in {WithIds(r) : r \in SeqsUpTo(ClockMedFields, MaxClockMeds)}
          /\ now \in NowValues /\ ticks_left = MaxTicks
       \/ /\ measurements_df = ScenarioReadings
          /\ medications_df = ScenarioMeds
          /\ now = BuildTime /\ ticks_left = 0
       \/ /\ measurements_df \in MalformedReadings
          /\ medications_df \in MalformedMeds
          /\ HasNotATime(measurements_df, medications_df)
          /\ now = BuildTime /\ ticks_left = 0
    /\ pc = "temp_series"
    /\ fig = EmptyFig
    /\ app_fig = EmptyFig
    /\ meds = <<>>
    /\ lane_last_time = <<>>
    /\ assigned_lanes = <<>>
    /\ max_lane_used = <<>>
    /\ hover_x = <<>>
    /\ hover_y = <<>>
    /\ hover_texts = <<>>
    /\ hover_ago = <<>>
    /\ now_reads = <<>>
    /\ error = <<>>
    /\ measurements = {}
    /\ medications = {}
    /\ medication_names = {}
    /\ sqlite_sequence = [measurements |-> 0, medications |-> 0, medication_names |-> 0]
    /\ last_call = [op |-> "none", args |-> <<>>, returned |-> <<>>, raised |-> <<>>]
    /\ last_deleted = <<>>
    /\ history = [click |-> "none", removed |-> {}]

\* pd.to_datetime(column) with the default errors="raise": the positions it
\* cannot parse, and the exception it raises for the first of them.  The
\* exception is pandas' own (a ValueError); it carries the raw value and the
\* position in the column, not the row's id.
Unparsable(column) == {k \in 1..Len(column) : column[k] = NotATime}

ParseError(column) ==
    LET k == CHOOSE j \in Unparsable(column) : \A m \in Unparsable(column) : j <= m
    IN  <<[type |-> "ValueError", raw |-> column[k], position |-> k - 1, record_id |-> <<>>]>>

\* mutant of IsHigh: a strict comparison
IsHigh_Strict(temperature_c) == temperature_c > TEMP_CRITICAL

\* ------------------------------------------------ step 1: temperature trace
IsHigh(temperature_c) == temperature_c >= TEMP_CRITICAL

\* mutant of MarkerSize: the two sizes exchanged
MarkerSize_Swapped(h) == IF h THEN size_normal ELSE size_high

MarkerSize(h) == IF h THEN size_high ELSE size_normal
MarkerColor(h) == IF h THEN "#d32f2f" ELSE "#1976d2"

TemperatureTrace(df) ==
    [name |-> "Temperature (°C)",
     x |-> Column(df, "recorded_at"),
     y |-> Column(df, "temperature_c"),
     marker_size |-> [k \in 1..Len(df) |-> MarkerSize(IsHigh(df[k].temperature_c))],
     marker_color |-> [k \in 1..Len(df) |-> MarkerColor(IsHigh(df[k].temperature_c))],
     text |-> <<>>,
     customdata |-> <<>>]

\* app.py lines 102-113: the same trace under the name written in app.py
app_TemperatureTrace(df) == [TemperatureTrace(df) EXCEPT !.name = "Temperature (Â°C)"]

TempSeries ==
    /\ pc = "temp_series"
    /\ IF measurements_df # <<>> /\ Unparsable(Column(measurements_df, "recorded_at")) # {}
       THEN \* line 17 raises
            /\ pc' = "raised"
            /\ error' = ParseError(Column(measurements_df, "recorded_at"))
            /\ fig' = fig
            /\ app_fig' = app_fig
       ELSE /\ fig' = IF measurements_df # <<>>
                      THEN [fig EXCEPT !.data = Append(@, TemperatureTrace(measurements_df))]
                      ELSE fig
            /\ app_fig' = IF measurements_df # <<>>
                          THEN [app_fig EXCEPT !.data = Append(@, app_TemperatureTrace(measurements_df))]
                          ELSE app_fig
            /\ pc' = "gridlines"
            /\ error' = error
    /\ UNCHANGED <<measurements_df, medications_df, meds, lane_last_time,
                   assigned_lanes, max_lane_used, hover_x, hover_y, hover_texts,
                   hover_ago, now_reads, now, ticks_left>>
    /\ UNCHANGED db_vars
    /\ UNCHANGED app_vars

\* -------------------------------------------------- step 2: hour gridlines
\* lines 34-38: one series of timestamps per non-empty frame
CombinedTimes(m_df, med_df) ==
    (IF m_df # <<>> THEN <<Column(m_df, "recorded_at")>> ELSE <<>>)
        \o (IF med_df # <<>> THEN <<Column(med_df, "given_at")>> ELSE <<>>)

\* mutant of HasCombinedTimes: the guard dropped
HasCombinedTimes_Always(combined_times) == TRUE

\* line 39: `if combined_times:`
HasCombinedTimes(combined_times) == combined_times # <<>>

\* lines 44-45, 74: cur = start; while cur <= end: ...; cur += 1 hour
RECURSIVE HourTicks(_, _)
HourTicks(cur, end) ==
    IF cur <= end THEN <<cur>> \o HourTicks(cur + minutes_per_hour, end) ELSE <<>>

\* mutant of IsMajor: only every twelfth hour emphasized
IsMajor_Every12(cur) == HourOf(cur) % 12 = 0

IsMajor(cur) == HourOf(cur) % 6 = 0

GridShape(cur) ==
    [type |-> "line", xref |-> "x", x0 |-> cur, x1 |-> cur,
     yref |-> "paper", y0 |-> 0, y1 |-> 1, dash |-> "dot"]

GridLabel(cur) ==
    [xref |-> "x", x |-> cur, yref |-> "paper", y |-> 0,
     text |-> IF IsMajor(cur) THEN "<b>" \o StrfHHMM(cur) \o "</b>" ELSE StrfHHMM(cur),
     showarrow |-> FALSE, ay |-> 0,
     font_size |-> IF IsMajor(cur) THEN 12 ELSE 9]

GridShapes(ticks) == [k \in 1..Len(ticks) |-> GridShape(ticks[k])]
GridLabels(ticks) == [k \in 1..Len(ticks) |-> GridLabel(ticks[k])]

\* lines 40-45: the hours the loop visits
GridTicks(combined_times) ==
    LET tmin == SeqMin([k \in 1..Len(combined_times) |-> SeqMin(combined_times[k])])
        tmax == SeqMax([k \in 1..Len(combined_times) |-> SeqMax(combined_times[k])])
    IN  HourTicks(FloorHour(tmin), CeilHour(tmax))

Gridlines ==
    /\ pc = "gridlines"
    /\ LET combined_times == CombinedTimes(measurements_df, medications_df)
       IN  IF \E k \in 1..Len(combined_times) : Unparsable(combined_times[k]) # {}
           THEN \* line 36 or line 38 raises
                /\ pc' = "raised"
                /\ error' = ParseError(
                       combined_times[CHOOSE k \in 1..Len(combined_times) :
                           /\ Unparsable(combined_times[k]) # {}
                           /\ \A j \in 1..(k - 1) : Unparsable(combined_times[j]) = {}])
                /\ fig' = fig
                /\ app_fig' = app_fig
           ELSE IF ~HasCombinedTimes(combined_times)
           THEN /\ pc' = "meds_sort"
                /\ fig' = fig
                /\ app_fig' = app_fig
                /\ error' = error
           ELSE IF combined_times = <<>>
           THEN \* min() of an empty sequence raises ValueError
                /\ pc' = "raised"
                /\ error' = <<[type |-> "ValueError", raw |-> NotATime, position |-> 0,
                               record_id |-> <<>>]>>
                /\ fig' = fig
                /\ app_fig' = app_fig
           ELSE /\ pc' = "meds_sort"
                /\ error' = error
                /\ fig' = [fig EXCEPT
                             !.shapes = @ \o GridShapes(GridTicks(combined_times)),
                             !.annotations = @ \o GridLabels(GridTicks(combined_times))]
                /\ app_fig' = [app_fig EXCEPT
                                 !.shapes = @ \o GridShapes(GridTicks(combined_times)),
                                 !.annotations = @ \o GridLabels(GridTicks(combined_times))]
    /\ UNCHANGED <<measurements_df, medications_df, meds, lane_last_time,
                   assigned_lanes, max_lane_used, hover_x, hover_y, hover_texts,
                   hover_ago, now_reads, now, ticks_left>>
    /\ UNCHANGED db_vars
    /\ UNCHANGED app_vars

\* --------------------------------------------- step 3: sort, lane assignment
\* DataFrame.sort_values("given_at") with the default kind="quicksort", which
\* pandas documents as not stable: rows with equal given_at may come out in any
\* order.  The result is any ordering of the rows that is ascending by given_at.
RECURSIVE AscendingOrders(_, _)
AscendingOrders(df, remaining) ==
    IF remaining = {} THEN {<<>>}
    ELSE LET lo == CHOOSE t \in {df[k].given_at : k \in remaining} :
                       \A k \in remaining : t <= df[k].given_at
         IN  UNION {{<<df[k]>> \o rest : rest \in AscendingOrders(df, remaining \ {k})} :
                       k \in {j \in remaining : df[j].given_at = lo}}

sort_values(df) == AscendingOrders(df, 1..Len(df))

SortMeds ==
    /\ pc = "meds_sort"
    /\ IF medications_df = <<>>
       THEN /\ pc' = "threshold"
            /\ UNCHANGED <<meds, lane_last_time>>
       ELSE /\ meds' \in sort_values(medications_df)
            /\ lane_last_time' = [li \in 1..max_lanes |-> <<>>]
            /\ pc' = "lane_assign"
    /\ UNCHANGED <<measurements_df, medications_df, fig, app_fig, assigned_lanes,
                   max_lane_used, hover_x, hover_y, hover_texts,
                   hover_ago, now_reads, error, now, ticks_left>>
    /\ UNCHANGED db_vars
    /\ UNCHANGED app_vars

\* mutants of LaneFree: the elapsed time compared in seconds, and a strict test
LaneFree_Seconds(last_time, t) ==
    \/ last_time = <<>>
    \/ (t - last_time[1]) * 60 >= window_minutes

LaneFree_Strict(last_time, t) ==
    \/ last_time = <<>>
    \/ t - last_time[1] > window_minutes

\* lines 93-96: the test one lane must pass
LaneFree(last_time, t) ==
    \/ last_time = <<>>
    \/ t - last_time[1] >= window_minutes

\* mutant of ScanLanes: the highest lane that passes is taken
ScanLanes_Highest(li, lanes, t) ==
    LET free == {q \in li..(max_lanes - 1) : LaneFree(lanes[q + 1], t)}
    IN  IF free = {} THEN <<>>
        ELSE <<CHOOSE q \in free : \A r \in free : r <= q>>

\* lines 90-98: scan lanes li, li+1, ... and stop at the first that passes;
\* <<>> when none does (lane_idx stays None)
RECURSIVE ScanLanes(_, _, _)
ScanLanes(li, lanes, t) ==
    IF li >= max_lanes THEN <<>>
    ELSE IF LaneFree(lanes[li + 1], t) THEN <<li>>
    ELSE ScanLanes(li + 1, lanes, t)

\* mutants of FallbackLane: no wrap-around, and a 1-based position
FallbackLane_NoWrap(i) == i

FallbackLane_OneBased(i) == (i + 1) % max_lanes

\* line 100: i is the row's position in the sorted, re-indexed frame
FallbackLane(i) == i % max_lanes

\* one iteration of the loop of lines 88-102
AssignLane ==
    /\ pc = "lane_assign"
    /\ LET i == Len(assigned_lanes)
           t == meds[i + 1].given_at
           found == ScanLanes(0, lane_last_time, t)
           lane_idx == IF found = <<>> THEN FallbackLane(i) ELSE found[1]
       IN  /\ lane_last_time' = [lane_last_time EXCEPT ![lane_idx + 1] = <<t>>]
           /\ assigned_lanes' = Append(assigned_lanes, lane_idx)
           /\ IF i + 1 = Len(meds)
              THEN /\ pc' = "annotate"
                   /\ max_lane_used' = <<0>>
              ELSE /\ pc' = pc
                   /\ max_lane_used' = max_lane_used
    /\ UNCHANGED <<measurements_df, medications_df, fig, app_fig, meds,
                   hover_x, hover_y, hover_texts,
                   hover_ago, now_reads, error, now, ticks_left>>
    /\ UNCHANGED db_vars
    /\ UNCHANGED app_vars

\* mutant of AgoStr: the minutes not zero-padded
AgoStr_NoPad(now_ts, x_at) ==
    LET delta_seconds == now_ts - x_at * 60
        total_minutes == delta_seconds \div 60
        hrs == total_minutes \div 60
        mins == total_minutes % 60
    IN  IF delta_seconds < 0 THEN "in future"
        ELSE IF hrs > 0 /\ mins > 0 THEN ToString(hrs) \o "h" \o ToString(mins) \o "mins ago"
        ELSE IF hrs > 0 THEN ToString(hrs) \o "h ago"
        ELSE IF mins > 0 THEN ToString(mins) \o "mins ago"
        ELSE "just now"

\* lines 153-167: the relative-time text; now_ts in seconds, x_at in minutes
AgoStr(now_ts, x_at) ==
    LET delta_seconds == now_ts - x_at * 60
        total_minutes == delta_seconds \div 60
        hrs == total_minutes \div 60
        mins == total_minutes % 60
    IN  IF delta_seconds < 0 THEN "in future"
        ELSE IF hrs > 0 /\ mins > 0 THEN ToString(hrs) \o "h" \o TwoDigits(mins) \o "mins ago"
        ELSE IF hrs > 0 THEN ToString(hrs) \o "h ago"
        ELSE IF mins > 0 THEN ToString(mins) \o "mins ago"
        ELSE "just now"

\* mutant of MedLabel: the dose appended whenever it is not null
MedLabel_AnyDose(row) ==
    IF row.dose_desc # <<>>
    THEN row.med_name \o " (" \o row.dose_desc[1] \o ")"
    ELSE row.med_name

\* ------------------------------------- steps 4-5: annotations, hover layer
\* lines 112-114
MedLabel(row) ==
    IF row.dose_desc # <<>> /\ row.dose_desc[1] # ""
    THEN row.med_name \o " (" \o row.dose_desc[1] \o ")"
    ELSE row.med_name

\* mutant of YForLabel: the lane counted from 1
YForLabel_OneBased(lane_idx) == y_max + label_base + (lane_idx + 1) * lane_step

\* line 116
YForLabel(lane_idx) == y_max + label_base + lane_idx * lane_step

PyMax(a, b) == IF b > a THEN b ELSE a

GuideShape(x_at, y_for_label) ==
    [type |-> "line", xref |-> "x", x0 |-> x_at, x1 |-> x_at,
     yref |-> "y", y0 |-> y_min, y1 |-> y_for_label, dash |-> "dot"]

MedAnnotation(x_at, y_for_label, label, lane_idx) ==
    [xref |-> "x", x |-> x_at, yref |-> "y", y |-> y_for_label,
     text |-> label, showarrow |-> TRUE, ay |-> 0 - (20 + lane_idx * 12),
     font_size |-> 11]

\* one iteration of the loop of lines 111-168; line 152 reads the clock
Annotate ==
    /\ pc = "annotate"
    /\ LET k == Len(hover_x) + 1
           lane_idx == assigned_lanes[k]
           row == meds[k]
           label == MedLabel(row)
           x_at == row.given_at
           y_for_label == YForLabel(lane_idx)
       IN  /\ fig' = [fig EXCEPT
                        !.shapes = Append(@, GuideShape(x_at, y_for_label)),
                        !.annotations =
                            Append(@, MedAnnotation(x_at, y_for_label, label, lane_idx))]
           /\ app_fig' = [app_fig EXCEPT
                            !.shapes = Append(@, GuideShape(x_at, y_for_label)),
                            !.annotations =
                                Append(@, MedAnnotation(x_at, y_for_label, label, lane_idx))]
           /\ max_lane_used' = <<PyMax(max_lane_used[1], lane_idx)>>
           /\ hover_x' = Append(hover_x, x_at)
           /\ hover_y' = Append(hover_y, y_for_label)
           /\ hover_texts' = Append(hover_texts, label)
           /\ now_reads' = Append(now_reads, now)
           /\ hover_ago' = Append(hover_ago, AgoStr(now, x_at))
           /\ pc' = IF k = Len(meds) THEN "hover_layer" ELSE pc
    /\ UNCHANGED <<measurements_df, medications_df, meds, lane_last_time,
                   assigned_lanes, error, now, ticks_left>>
    /\ UNCHANGED db_vars
    /\ UNCHANGED app_vars

\* mutant of HoverTrace: every marker at the height of lane 0
HoverTrace_FlatY(xs, ys, texts, ago) ==
    [name |-> "Medication", x |-> xs,
     y |-> [k \in 1..Len(xs) |-> y_max + label_base],
     marker_size |-> [k \in 1..Len(xs) |-> 16],
     marker_color |-> [k \in 1..Len(xs) |-> "rgba(0,0,0,0)"],
     text |-> texts,
     customdata |-> ago]

\* lines 171-184
HoverTrace(xs, ys, texts, ago) ==
    [name |-> "Medication", x |-> xs, y |-> ys,
     marker_size |-> [k \in 1..Len(xs) |-> 16],
     marker_color |-> [k \in 1..Len(xs) |-> "rgba(0,0,0,0)"],
     text |-> texts,
     customdata |-> ago]

HoverLayer ==
    /\ pc = "hover_layer"
    /\ fig' = IF hover_x # <<>>
              THEN [fig EXCEPT !.data = Append(@, HoverTrace(hover_x, hover_y, hover_texts, hover_ago))]
              ELSE fig
    /\ app_fig' = IF hover_x # <<>>
                  THEN [app_fig EXCEPT !.data = Append(@, HoverTrace(hover_x, hover_y, hover_texts, hover_ago))]
                  ELSE app_fig
    /\ pc' = "threshold"
    /\ UNCHANGED <<measurements_df, medications_df, meds, lane_last_time,
                   assigned_lanes, max_lane_used, hover_x, hover_y, hover_texts,
                   hover_ago, now_reads, error, now, ticks_left>>
    /\ UNCHANGED db_vars
    /\ UNCHANGED app_vars

\* mutant of FormatOneDecimal: no decimals
FormatOneDecimal_NoDecimals(v) == ToString((v + 50) \div 100)

\* --------------------------------------------------- step 6: threshold line
\* f"{v:.1f}" of a value given in hundredths
FormatOneDecimal(v) ==
    LET tenths == (v + 5) \div 10
    IN  ToString(tenths \div 10) \o "." \o ToString(tenths % 10)

ThresholdShape ==
    [type |-> "line", xref |-> "x domain", x0 |-> 0, x1 |-> 1,
     yref |-> "y", y0 |-> TEMP_CRITICAL, y1 |-> TEMP_CRITICAL, dash |-> "dash"]

ThresholdLabel ==
    [xref |-> "paper", x |-> 0, yref |-> "y", y |-> TEMP_CRITICAL,
     text |-> FormatOneDecimal(TEMP_CRITICAL) \o "°C",
     showarrow |-> FALSE, ay |-> 0, font_size |-> 12]

\* app.py lines 273-284: the same label with the text written in app.py
app_ThresholdLabel ==
    [ThresholdLabel EXCEPT !.text = FormatOneDecimal(TEMP_CRITICAL) \o "Â°C"]

Threshold ==
    /\ pc = "threshold"
    /\ fig' = [fig EXCEPT !.shapes = Append(@, ThresholdShape),
                          !.annotations = Append(@, ThresholdLabel)]
    /\ app_fig' = [app_fig EXCEPT !.shapes = Append(@, ThresholdShape),
                              !.annotations = Append(@, app_ThresholdLabel)]
    /\ pc' = "layout"
    /\ UNCHANGED <<measurements_df, medications_df, meds, lane_last_time,
                   assigned_lanes, max_lane_used, hover_x, hover_y, hover_texts,
                   hover_ago, now_reads, error, now, ticks_left>>
    /\ UNCHANGED db_vars
    /\ UNCHANGED app_vars

\* mutant of Headroom: the stacked lanes ignored
Headroom_NoLanes(med_df, lane_used) == base_headroom

\* ------------------------------------------------- step 7: layout assembly
\* lines 212-215; locals().get("max_lane_used", 0)
Headroom(med_df, lane_used) ==
    IF med_df # <<>>
    THEN base_headroom + lane_step * (IF lane_used = <<>> THEN 0 ELSE lane_used[1])
    ELSE base_headroom

\* line 216
YAxisRange(headroom) == <<y_min - floor_margin, y_max + headroom>>

\* yaxis_title, line 209 of charts.py and line 292 of app.py
YAxisTitle == "Temperature (°C)"
app_YAxisTitle == "Temperature (Â°C)"

Layout ==
    /\ pc = "layout"
    /\ fig' = [fig EXCEPT
                 !.yaxis_range = YAxisRange(Headroom(medications_df, max_lane_used)),
                 !.yaxis_title = <<YAxisTitle>>]
    /\ app_fig' = [app_fig EXCEPT
                     !.yaxis_range = YAxisRange(Headroom(medications_df, max_lane_used)),
                     !.yaxis_title = <<app_YAxisTitle>>]
    /\ pc' = "done"
    /\ UNCHANGED <<measurements_df, medications_df, meds, lane_last_time,
                   assigned_lanes, max_lane_used, hover_x, hover_y, hover_texts,
                   hover_ago, now_reads, error, now, ticks_left>>
    /\ UNCHANGED db_vars
    /\ UNCHANGED app_vars

\* the wall clock advances while the annotation loop runs
Tick ==
    /\ pc = "annotate"
    /\ ticks_left > 0
    /\ now' = now + ClockStep
    /\ ticks_left' = ticks_left - 1
    /\ UNCHANGED <<measurements_df, medications_df, pc, fig, app_fig, meds, lane_last_time,
                   assigned_lanes, max_lane_used, hover_x, hover_y, hover_texts,
                   hover_ago, now_reads, error>>
    /\ UNCHANGED db_vars
    /\ UNCHANGED app_vars

Next ==
    \/ Tick
    \/ TempSeries
    \/ Gridlines
    \/ SortMeds
    \/ AssignLane
    \/ Annotate
    \/ HoverLayer
    \/ Threshold
    \/ Layout

Spec == Init /\ [][Next]_vars

\* ================================================================== claims
AfterSort == pc \in {"lane_assign", "annotate", "hover_layer", "threshold", "layout", "done"}
AfterLanes == pc \in {"annotate", "hover_layer", "threshold", "layout", "done"}

\* the step that processes one medication event in the lane loop
LaneStep == pc = "lane_assign" /\ Len(assigned_lanes') = Len(assigned_lanes) + 1

\* lanes (0-based) that pass the scan for an event at time t, as the claims state it
QualifyingLanes(lanes, t) ==
    {li \in 0..2 : lanes[li + 1] = <<>> \/ t - lanes[li + 1][1] >= 180}

\* all three lanes hold a timestamp less than 180 minutes before t
AllLanesBusy(lanes, t) ==
    \A li \in 0..2 : lanes[li + 1] # <<>> /\ t - lanes[li + 1][1] < 180

\* C1: when an event is assigned the lane of an earlier event that is less than
\* 180 minutes before it, all 3 lanes held a timestamp less than 180 minutes
\* before it at that moment (the fallback path); otherwise two events less
\* than 180 minutes apart never share a lane.
C1_NoSharedLaneWithinWindow ==
    [][LaneStep =>
        LET i == Len(assigned_lanes)
            t == meds[i + 1].given_at
            lane == assigned_lanes'[i + 1]
        IN  \A j \in 1..i :
                (t - meds[j].given_at < 180 /\ assigned_lanes[j] = lane)
                    => AllLanesBusy(lane_last_time, t)]_vars

\* four events assigned; two within the window are in different lanes, and two
\* within the window share one (the fallback)
C1_Witness ==
    /\ Len(assigned_lanes) = 4
    /\ \E j, k \in 1..4 :
          /\ j < k
          /\ meds[k].given_at - meds[j].given_at < 180
          /\ assigned_lanes[j] # assigned_lanes[k]
    /\ \E j, k \in 1..4 :
          /\ j < k
          /\ meds[k].given_at - meds[j].given_at < 180
          /\ assigned_lanes[j] = assigned_lanes[k]

\* the annotations of medication events (the ones drawn with an arrow)
IsMedAnnotation(a) == a.showarrow
MedAnnotations == SelectSeq(fig.annotations, IsMedAnnotation)

\* C2: every medication event gets exactly one lane index, in 0..2, on both
\* paths; the sorted frame holds every input row once, the number of assigned
\* lanes equals the number of events, and so does the number of annotations.
C2_OneLanePerEvent ==
    /\ \A k \in 1..Len(assigned_lanes) : assigned_lanes[k] \in 0..2
    /\ Len(assigned_lanes) <= Len(meds)
    /\ AfterSort =>
          /\ Len(meds) = Len(medications_df)
          /\ \A r \in 1..Len(medications_df) :
                Cardinality({k \in 1..Len(meds) : meds[k] = medications_df[r]}) = 1
    /\ AfterLanes => Len(assigned_lanes) = Len(medications_df)
    /\ pc = "done" =>
          /\ Len(MedAnnotations) = Len(medications_df)
          /\ \A k \in 1..Len(MedAnnotations) :
                /\ MedAnnotations[k].x = meds[k].given_at
                /\ MedAnnotations[k].y = 4100 + 20 + 35 * assigned_lanes[k]

\* a finished build of four events, the fourth placed by the fallback
C2_Witness ==
    /\ pc = "done"
    /\ Len(assigned_lanes) = 4
    /\ meds[4].given_at - meds[1].given_at < 180

\* C3: events are processed in ascending given_at order; when some lane is
\* unassigned or at least 180 minutes old, the event goes to the lowest such
\* lane, and that lane's tracker (and only that one) becomes the event's time.
C3_FirstFitLowestLane ==
    [][LaneStep =>
        LET i == Len(assigned_lanes)
            t == meds[i + 1].given_at
            lane == assigned_lanes'[i + 1]
            Q == QualifyingLanes(lane_last_time, t)
        IN  /\ \A j \in 1..i : meds[j].given_at <= t
            /\ Q # {} =>
                  /\ lane \in Q
                  /\ \A q \in Q : lane <= q
                  /\ lane_last_time'[lane + 1] = <<t>>
                  /\ \A li \in 0..2 :
                        li # lane => lane_last_time'[li + 1] = lane_last_time[li + 1]]_vars

\* an event reuses the lane of an event exactly 180 minutes before it, and
\* another event was first-fitted into a lane above 0
C3_Witness ==
    /\ \E j, k \in 1..Len(assigned_lanes) :
          /\ j < k
          /\ meds[k].given_at - meds[j].given_at = 180
          /\ assigned_lanes[k] = assigned_lanes[j]
          /\ \A m \in (j + 1)..(k - 1) : assigned_lanes[m] # assigned_lanes[j]
    /\ \E k \in 1..Len(assigned_lanes) : k <= 3 /\ assigned_lanes[k] > 0

\* C4: when no lane qualifies, the event gets lane (0-based sorted position)
\* mod 3, and that lane's tracker still becomes the event's time.
C4_FallbackLane ==
    [][LaneStep =>
        LET i == Len(assigned_lanes)
            t == meds[i + 1].given_at
            lane == assigned_lanes'[i + 1]
        IN  AllLanesBusy(lane_last_time, t) =>
                /\ lane = i % 3
                /\ lane_last_time'[lane + 1] = <<t>>
                /\ \A li \in 0..2 :
                      li # lane => lane_last_time'[li + 1] = lane_last_time[li + 1]]_vars

\* the fourth event came less than 180 minutes after the first three, which
\* filled lanes 0, 1, 2: it was placed by the fallback
C4_Witness ==
    /\ Len(assigned_lanes) >= 4
    /\ meds[4].given_at - meds[1].given_at < 180
    /\ assigned_lanes[1] = 0 /\ assigned_lanes[2] = 1 /\ assigned_lanes[3] = 2
    /\ assigned_lanes[4] = 0

\* C5: the sort is stable: rows with equal given_at keep their input order
\* (the id column is the input position).
C5_StableSort ==
    AfterSort =>
        \A j, k \in 1..Len(meds) :
            (j < k /\ meds[j].given_at = meds[k].given_at) => meds[j].id < meds[k].id

\* every timestamp of the two input frames
InputTimes ==
    {measurements_df[k].recorded_at : k \in 1..Len(measurements_df)}
        \cup {medications_df[k].given_at : k \in 1..Len(medications_df)}

\* the gridlines of the figure: the vertical lines drawn in paper coordinates
IsGridShape(sh) == sh.yref = "paper"
GridXs == LET g == SelectSeq(fig.shapes, IsGridShape) IN [k \in 1..Len(g) |-> g[k].x0]

\* C6: with at least one timestamp the gridlines are exactly the whole hours
\* from the hour containing the earliest timestamp to the first whole hour at
\* or after the latest one, ascending, one per hour, whatever the row order;
\* there is no gridline iff both frames are empty.
C6_HourlyGridlines ==
    pc \notin {"temp_series", "gridlines", "raised"} =>
        /\ GridXs = <<>> <=> (measurements_df = <<>> /\ medications_df = <<>>)
        /\ InputTimes # {} =>
              LET lo == CHOOSE t \in InputTimes : \A u \in InputTimes : t <= u
                  hi == CHOOSE t \in InputTimes : \A u \in InputTimes : t >= u
                  expected == {h \in 0..(hi + 60) : h % 60 = 0 /\ lo - h < 60 /\ h - hi < 60}
              IN  /\ {GridXs[k] : k \in 1..Len(GridXs)} = expected
                  /\ Len(GridXs) = Cardinality(expected)
                  /\ \A k \in 1..(Len(GridXs) - 1) : GridXs[k + 1] = GridXs[k] + 60

\* a finished build whose readings arrive latest-first and end on a whole hour
\* boundary case: the latest timestamp of the union lies on the hour
C6_Witness ==
    /\ pc = "done"
    /\ Len(measurements_df) = 2
    /\ measurements_df[1].recorded_at > measurements_df[2].recorded_at
    /\ medications_df # <<>>
    /\ Len(GridXs) >= 2

\* C7: the temperature series has one point per reading, in input order; a
\* reading at or above 39.8 has size 10 and the alert colour, a reading below
\* has size 6 and the normal colour.
C7_MarkerStyles ==
    (pc \notin {"temp_series", "raised"} /\ measurements_df # <<>>) =>
        LET tr == fig.data[1]
        IN  /\ tr.name = "Temperature (°C)"
            /\ Len(tr.x) = Len(measurements_df)
            /\ Len(tr.marker_size) = Len(measurements_df)
            /\ \A k \in 1..Len(measurements_df) :
                  /\ tr.x[k] = measurements_df[k].recorded_at
                  /\ tr.y[k] = measurements_df[k].temperature_c
                  /\ measurements_df[k].temperature_c >= 3980 =>
                        (tr.marker_size[k] = 10 /\ tr.marker_color[k] = "#d32f2f")
                  /\ measurements_df[k].temperature_c < 3980 =>
                        (tr.marker_size[k] = 6 /\ tr.marker_color[k] = "#1976d2")

\* a finished build with a reading exactly at 39.8 and a reading below it
C7_Witness ==
    /\ pc = "done"
    /\ \E j, k \in 1..Len(measurements_df) :
          /\ measurements_df[j].temperature_c = 3980
          /\ measurements_df[k].temperature_c < 3980
          /\ fig.data[1].marker_size[j] = 10

HasThresholdLine ==
    \E k \in 1..Len(fig.shapes) :
        LET sh == fig.shapes[k]
        IN  sh.yref = "y" /\ sh.y0 = 3980 /\ sh.y1 = 3980 /\ sh.xref = "x domain"
                /\ sh.x0 = 0 /\ sh.x1 = 1

HasThresholdLabel ==
    \E k \in 1..Len(fig.annotations) :
        LET a == fig.annotations[k]
        IN  a.text = "39.8°C" /\ a.yref = "y" /\ a.y = 3980

\* C8: every returned figure has the horizontal line at y = 39.8 and the
\* label "39.8°C", for every input.
C8_ThresholdAlwaysPresent ==
    pc = "done" => (HasThresholdLine /\ HasThresholdLabel)

\* a finished build of two empty frames, holding one shape and one annotation
C8_Witness ==
    /\ pc = "done"
    /\ measurements_df = <<>> /\ medications_df = <<>>
    /\ Len(fig.shapes) = 1 /\ Len(fig.annotations) = 1

\* C9: a build of well-formed frames never raises, whichever of them are
\* empty: every step it reaches has the rows and locals it reads; with both
\* frames empty the
\* returned figure holds no trace, no gridline, no medication annotation and
\* no hover layer: only the threshold line, its label and the range [35.5, 41.8].
C9_EmptyInputDegrades ==
    /\ pc = "raised" => HasNotATime(measurements_df, medications_df)
    /\ pc \in {"temp_series", "gridlines", "meds_sort", "lane_assign", "annotate",
               "hover_layer", "threshold", "layout", "done", "raised"}
    /\ pc = "lane_assign" => Len(assigned_lanes) < Len(meds)
    /\ pc = "annotate" =>
          /\ Len(hover_x) < Len(meds)
          /\ Len(assigned_lanes) = Len(meds)
          /\ max_lane_used # <<>>
    /\ (pc = "done" /\ measurements_df = <<>> /\ medications_df = <<>>) =>
          /\ fig.data = <<>>
          /\ Len(fig.shapes) = 1 /\ HasThresholdLine
          /\ Len(fig.annotations) = 1 /\ HasThresholdLabel
          /\ fig.yaxis_range = <<3550, 4180>>

\* finished builds exist for the empty pair of frames
C9_Witness ==
    /\ pc = "done"
    /\ measurements_df = <<>> /\ medications_df = <<>>
    /\ fig.yaxis_range # <<>>

\* the largest lane index given to any event, 0 without events
MaxAssignedLane ==
    IF assigned_lanes = <<>> THEN 0
    ELSE CHOOSE m \in {assigned_lanes[k] : k \in 1..Len(assigned_lanes)} :
             \A k \in 1..Len(assigned_lanes) : m >= assigned_lanes[k]

\* C10: the y-axis range is [36.0 - 0.5, 41.0 + 0.8 + 0.35 * max_lane_used]
\* whatever the temperatures are; the lower bound is always 35.5.
C10_YAxisRange ==
    pc = "done" =>
        /\ fig.yaxis_range = <<3600 - 50, 4100 + 80 + 35 * MaxAssignedLane>>
        /\ fig.yaxis_range[1] = 3550

\* a finished build whose events reached lane 2
C10_Witness ==
    /\ pc = "done"
    /\ MaxAssignedLane = 2
    /\ fig.yaxis_range[2] = 4250

\* C11: the label of an event in lane L sits at y = 41.0 + 0.2 + 0.35 * L, and
\* that height never exceeds the upper end of the y-axis range,
\* 41.0 + 0.8 + 0.35 * max_lane_used: no label is clipped.
C11_LabelsNotClipped ==
    pc = "done" =>
        \A k \in 1..Len(MedAnnotations) :
            /\ MedAnnotations[k].y = 4100 + 20 + 35 * assigned_lanes[k]
            /\ MedAnnotations[k].y <= fig.yaxis_range[2]
            /\ MedAnnotations[k].y <= 4100 + 80 + 35 * MaxAssignedLane

\* a finished build with labels in lanes 0, 1 and 2
C11_Witness ==
    /\ pc = "done"
    /\ \A lane \in 0..2 :
          \E k \in 1..Len(MedAnnotations) : MedAnnotations[k].y = 4120 + 35 * lane

\* C12: within one build the clock is read exactly once, and the relative-time
\* text of every marker is computed from that one value.
C12_NowReadOnce ==
    /\ Len(now_reads) <= 1
    /\ \A k \in 1..Len(hover_ago) : hover_ago[k] = AgoStr(now_reads[1], hover_x[k])

\* C13: a build that meets a timestamp it cannot parse ends with a
\* MalformedTimestampError naming the record's id and raw value; it never
\* completes with the record dropped or replaced.
C13_MalformedTimestampError ==
    /\ pc = "raised" =>
          /\ error[1].type = "MalformedTimestampError"
          /\ error[1].record_id # <<>>
          /\ error[1].raw = NotATime
    /\ HasNotATime(measurements_df, medications_df) => pc # "done"

\* the five cases of the relative-time text, for a marker built from the clock
\* value n (seconds) for an event at minute g
AgoCases(n, g) ==
    LET m == (n - g * 60) \div 60
        h == m \div 60
        r == m % 60
    IN  <<g * 60 > n,
          g * 60 <= n /\ h > 0 /\ r > 0,
          g * 60 <= n /\ h > 0 /\ r = 0,
          g * 60 <= n /\ h = 0 /\ r > 0,
          g * 60 <= n /\ n - g * 60 < 60>>

\* C14: the relative-time text of each marker is decided by now - given_at:
\* "in future" for an event after now; else with m whole elapsed minutes,
\* h = m div 60, r = m mod 60: "{h}h{rr}mins ago", "{h}h ago", "{r}mins ago" or
\* "just now" (under one minute); exactly one case applies.
C14_RelativeTimeText ==
    \A k \in 1..Len(hover_ago) :
        LET n == now_reads[k]
            g == hover_x[k]
            m == (n - g * 60) \div 60
            h == m \div 60
            r == m % 60
            rr == IF r < 10 THEN "0" \o ToString(r) ELSE ToString(r)
            case == AgoCases(n, g)
        IN  /\ Cardinality({c \in 1..5 : case[c]}) = 1
            /\ case[1] => hover_ago[k] = "in future"
            /\ case[2] => hover_ago[k] = ToString(h) \o "h" \o rr \o "mins ago"
            /\ case[3] => hover_ago[k] = ToString(h) \o "h ago"
            /\ case[4] => hover_ago[k] = ToString(r) \o "mins ago"
            /\ case[5] => hover_ago[k] = "just now"

\* a build whose markers show a padded text and a future event
C14_Witness ==
    /\ pc = "done"
    /\ \E j, k \in 1..Len(hover_ago) :
          /\ hover_ago[j] = "3h05mins ago"
          /\ hover_ago[k] = "in future"

IsHoverTrace(t) == t.name = "Medication"
HoverTraces == SelectSeq(fig.data, IsHoverTrace)
AfterHoverLayer == pc \in {"threshold", "layout", "done"}

\* C15: with medications the chart has one hover layer holding exactly one
\* invisible marker per medication event, at (given_at, label height of its
\* lane), carrying the event's label text and relative-time text, in the order
\* of the annotations; without medications there is no hover layer.
C15_HoverLayer ==
    AfterHoverLayer =>
        IF medications_df = <<>>
        THEN HoverTraces = <<>>
        ELSE /\ Len(HoverTraces) = 1
             /\ LET h == HoverTraces[1]
                IN  /\ Len(h.x) = Len(medications_df)
                    /\ Len(h.y) = Len(h.x) /\ Len(h.text) = Len(h.x)
                    /\ Len(h.customdata) = Len(h.x)
                    /\ Len(h.marker_color) = Len(h.x)
                    /\ Len(MedAnnotations) = Len(h.x)
                    /\ \A k \in 1..Len(h.x) :
                          /\ h.marker_color[k] = "rgba(0,0,0,0)"
                          /\ h.x[k] = meds[k].given_at
                          /\ h.y[k] = 4120 + 35 * assigned_lanes[k]
                          /\ h.x[k] = MedAnnotations[k].x
                          /\ h.y[k] = MedAnnotations[k].y
                          /\ h.text[k] = MedAnnotations[k].text
                          /\ h.customdata[k] = AgoStr(now_reads[k], meds[k].given_at)

\* a finished chart whose hover layer has markers in three different lanes
C15_Witness ==
    /\ pc = "done"
    /\ Len(HoverTraces) = 1
    /\ {HoverTraces[1].y[k] : k \in 1..Len(HoverTraces[1].y)} = {4120, 4155, 4190}

\* a finished chart without medications and without a hover layer
C15_WitnessEmpty ==
    /\ pc = "done" /\ medications_df = <<>> /\ measurements_df # <<>>
    /\ HoverTraces = <<>>

\* C16: the annotation text of a medication event is "med_name (dose_desc)"
\* when dose_desc is a non-empty string, and exactly med_name when dose_desc is
\* missing, null or empty.
C16_AnnotationText ==
    \A k \in 1..Len(MedAnnotations) :
        LET d == meds[k].dose_desc
            t == MedAnnotations[k].text
        IN  /\ d = <<>> => t = meds[k].med_name
            /\ d = <<"">> => t = meds[k].med_name
            /\ (d # <<>> /\ d # <<"">>) => t = meds[k].med_name \o " (" \o d[1] \o ")"

\* a chart annotating an event with an empty dose and one with a dose
C16_Witness ==
    /\ pc = "done"
    /\ \E j, k \in 1..Len(MedAnnotations) :
          /\ meds[j].dose_desc = <<"">> /\ MedAnnotations[j].text = "Paracetamol"
          /\ meds[k].dose_desc = <<"120 mg">>
          /\ MedAnnotations[k].text = "Paracetamol (120 mg)"

IsTemperatureTrace(t) == t.name = "Temperature (°C)"
TemperatureTraces == SelectSeq(fig.data, IsTemperatureTrace)
IsThresholdLabel(a) == a.text = "39.8°C"

\* C17: scenario A, readings (10:00, 37.2) and (12:00, 39.9) with one
\* Paracetamol "120 mg" event at 11:00: the finished chart has one temperature
\* series whose only alert-styled point is the one at 12:00, one gridline at
\* each of 10:00, 11:00 and 12:00, one medication annotation
\* "Paracetamol (120 mg)" in lane 0, and one "39.8°C" threshold label.
C17_ScenarioA ==
    (pc = "done" /\ measurements_df = ScenarioReadings /\ medications_df = ScenarioMeds) =>
        /\ Len(TemperatureTraces) = 1
        /\ TemperatureTraces[1].x = <<600, 720>>
        /\ TemperatureTraces[1].y = <<3720, 3990>>
        /\ TemperatureTraces[1].marker_size = <<6, 10>>
        /\ TemperatureTraces[1].marker_color = <<"#1976d2", "#d32f2f">>
        /\ GridXs = <<600, 660, 720>>
        /\ Len(MedAnnotations) = 1
        /\ MedAnnotations[1].text = "Paracetamol (120 mg)"
        /\ MedAnnotations[1].x = 660
        /\ MedAnnotations[1].y = 4120
        /\ assigned_lanes = <<0>>
        /\ Len(SelectSeq(fig.annotations, IsThresholdLabel)) = 1

\* the finished chart of scenario A
C17_Witness ==
    /\ pc = "done"
    /\ measurements_df = ScenarioReadings /\ medications_df = ScenarioMeds
    /\ Len(fig.data) = 2 /\ Len(fig.annotations) = 5

\* ================================================================== db.py
\* A stored timestamp is the text "YYYY-MM-DDTHH:MM".  The date part is the
\* same for all rows and is left out; the time part is the sequence of its
\* four digits, so that the order of texts is an order of digit sequences.

\* mutant of IsoMinutes: the hour without its leading zero
IsoMinutes_Unpadded(t) ==
    LET h == t \div 60
        m == t % 60
    IN  IF h < 10 THEN <<h, m \div 10, m % 10>>
        ELSE <<h \div 10, h % 10, m \div 10, m % 10>>

\* datetime.isoformat(timespec="minutes") of minute t of the day
IsoMinutes(t) ==
    LET h == t \div 60
        m == t % 60
    IN  <<h \div 10, h % 10, m \div 10, m % 10>>

\* mutant of TextLessEq: the comparison reversed
TextLessEq_Reversed(a, b) ==
    \/ \E i \in 1..Len(a) :
          /\ i <= Len(b)
          /\ \A j \in 1..(i - 1) : a[j] = b[j]
          /\ a[i] > b[i]
    \/ /\ Len(b) <= Len(a)
       /\ \A j \in 1..Len(b) : a[j] = b[j]

\* a <= b for TEXT values under SQLite's default BINARY collation (memcmp)
TextLessEq(a, b) ==
    \/ \E i \in 1..Len(a) :
          /\ i <= Len(b)
          /\ \A j \in 1..(i - 1) : a[j] = b[j]
          /\ a[i] < b[i]
    \/ /\ Len(a) <= Len(b)
       /\ \A j \in 1..Len(a) : a[j] = b[j]

\* float(temperature_c): an int or float argument becomes a float of that value
PyFloat(x) == [kind |-> "float", v |-> x.v]

\* ------------------------------------------------------- arguments of calls
DbTimes == {IsoMinutes(540), IsoMinutes(600)}
DbTemps == {[kind |-> "int", v |-> 3800], [kind |-> "float", v |-> 3820]}
DbNotes == {<<>>, <<"morning">>}
DbMedNames == {"Paracetamol"}
DbDoses == {<<>>, <<"120 mg">>}
DbRowIds == 1..MaxDbRows
DbLimits == {<<>>, <<1>>}
DbTableNames == {"measurements", "medications", "medication_names"}

\* ------------------------------------------------------------ SQL statements
\* INSERT with an INTEGER PRIMARY KEY AUTOINCREMENT: one more than the largest
\* id the table ever held
NextRowId(rows, seq) ==
    LET ids == {r.id : r \in rows} \cup {seq}
    IN  (CHOOSE m \in ids : \A i \in ids : i <= m) + 1

\* mutant of MeasurementRow: the notes not stored
MeasurementRow_DropNotes(id, recorded_at_iso, temperature_c, notes) ==
    [id |-> id, recorded_at |-> recorded_at_iso,
     temperature_c |-> PyFloat(temperature_c), notes |-> <<>>]

\* the row bound by the parameters of lines 102-103 and 127-128
MeasurementRow(id, recorded_at_iso, temperature_c, notes) ==
    [id |-> id, recorded_at |-> recorded_at_iso,
     temperature_c |-> PyFloat(temperature_c), notes |-> notes]

\* the row bound by the parameters of lines 116-117 and 141-142
MedicationRow(id, given_at_iso, med_name, dose_desc, notes) ==
    [id |-> id, given_at |-> given_at_iso, med_name |-> med_name,
     dose_desc |-> dose_desc, notes |-> notes]

\* mutant of UpdateWhereId: the WHERE clause dropped
UpdateWhereId_AllRows(rows, row_id, new_row) ==
    {[new_row EXCEPT !.id = r.id] : r \in rows}

\* UPDATE ... SET ... WHERE id = ?
UpdateWhereId(rows, row_id, new_row) ==
    {IF r.id = row_id THEN new_row ELSE r : r \in rows}

\* DELETE FROM ... WHERE id = ?
DeleteWhereId(rows, row_id) == {r \in rows : r.id # row_id}

\* SELECT ... ORDER BY col ASC: every order of the rows that ascends in col;
\* SQL leaves the order of rows with equal keys open
OrderBy(rows, col) ==
    LET n == Cardinality(rows)
    IN  {s \in [1..n -> rows] :
            /\ \A i, j \in 1..n : i # j => s[i] # s[j]
            /\ \A i \in 1..(n - 1) : TextLessEq(s[i][col], s[i + 1][col])}

\* LIMIT n, present only when limit is not None; a negative LIMIT is no limit
Limit(df, limit) ==
    IF limit = <<>> \/ limit[1] < 0 \/ limit[1] >= Len(df) THEN df
    ELSE SubSeq(df, 1, limit[1])

SelectMeasurements(limit) == {Limit(s, limit) : s \in OrderBy(measurements, "recorded_at")}
SelectMedications(limit) == {Limit(s, limit) : s \in OrderBy(medications, "given_at")}

Call(op, args, returned, raised) ==
    [op |-> op, args |-> args, returned |-> returned, raised |-> raised]

\* --------------------------------------------------------------- operations
add_measurement ==
    /\ sqlite_sequence.measurements + sqlite_sequence.medications < MaxDbRows
    /\ \E recorded_at_iso \in DbTimes, temperature_c \in DbTemps, notes \in DbNotes :
          LET lastrowid == NextRowId(measurements, sqlite_sequence.measurements)
          IN  /\ measurements' = measurements \cup
                    {MeasurementRow(lastrowid, recorded_at_iso, temperature_c, notes)}
              /\ sqlite_sequence' = [sqlite_sequence EXCEPT !.measurements = lastrowid]
              /\ last_call' = Call("add_measurement",
                                   <<recorded_at_iso, temperature_c, notes>>,
                                   <<lastrowid>>, <<>>)
    /\ UNCHANGED medications
    /\ UNCHANGED chart_vars
    /\ UNCHANGED medication_names
    /\ UNCHANGED app_vars

add_medication ==
    /\ sqlite_sequence.measurements + sqlite_sequence.medications < MaxDbRows
    /\ \E given_at_iso \in DbTimes, med_name \in DbMedNames,
          dose_desc \in DbDoses, notes \in DbNotes :
          LET lastrowid == NextRowId(medications, sqlite_sequence.medications)
          IN  /\ medications' = medications \cup
                    {MedicationRow(lastrowid, given_at_iso, med_name, dose_desc, notes)}
              /\ sqlite_sequence' = [sqlite_sequence EXCEPT !.medications = lastrowid]
              /\ last_call' = Call("add_medication",
                                   <<given_at_iso, med_name, dose_desc, notes>>,
                                   <<lastrowid>>, <<>>)
    /\ UNCHANGED measurements
    /\ UNCHANGED chart_vars
    /\ UNCHANGED medication_names
    /\ UNCHANGED app_vars

update_measurement ==
    /\ \E row_id \in DbRowIds, recorded_at_iso \in DbTimes,
          temperature_c \in DbTemps, notes \in DbNotes :
          /\ measurements' = UpdateWhereId(measurements, row_id,
                MeasurementRow(row_id, recorded_at_iso, temperature_c, notes))
          /\ last_call' = Call("update_measurement",
                               <<row_id, recorded_at_iso, temperature_c, notes>>,
                               <<>>, <<>>)
    /\ UNCHANGED <<medications, sqlite_sequence>>
    /\ UNCHANGED chart_vars
    /\ UNCHANGED medication_names
    /\ UNCHANGED app_vars

update_medication ==
    /\ \E row_id \in DbRowIds, given_at_iso \in DbTimes, med_name \in DbMedNames,
          dose_desc \in DbDoses, notes \in DbNotes :
          /\ medications' = UpdateWhereId(medications, row_id,
                MedicationRow(row_id, given_at_iso, med_name, dose_desc, notes))
          /\ last_call' = Call("update_medication",
                               <<row_id, given_at_iso, med_name, dose_desc, notes>>,
                               <<>>, <<>>)
    /\ UNCHANGED <<measurements, sqlite_sequence>>
    /\ UNCHANGED chart_vars
    /\ UNCHANGED medication_names
    /\ UNCHANGED app_vars

fetch_measurements ==
    /\ \E limit \in DbLimits :
          \E df \in SelectMeasurements(limit) :
              last_call' = Call("fetch_measurements", <<limit>>, <<df>>, <<>>)
    /\ UNCHANGED <<measurements, medications, sqlite_sequence>>
    /\ UNCHANGED chart_vars
    /\ UNCHANGED medication_names
    /\ UNCHANGED app_vars

fetch_medications ==
    /\ \E limit \in DbLimits :
          \E df \in SelectMedications(limit) :
              last_call' = Call("fetch_medications", <<limit>>, <<df>>, <<>>)
    /\ UNCHANGED <<measurements, medications, sqlite_sequence>>
    /\ UNCHANGED chart_vars
    /\ UNCHANGED medication_names
    /\ UNCHANGED app_vars

delete_entry ==
    /\ \E table_name \in DbTableNames, row_id \in DbRowIds :
          IF table_name \notin {"measurements", "medications"}
          THEN /\ last_call' = Call("delete_entry", <<table_name, row_id>>,
                                    <<>>, <<"ValueError">>)
               /\ UNCHANGED <<measurements, medications>>
          ELSE /\ last_call' = Call("delete_entry", <<table_name, row_id>>, <<>>, <<>>)
               /\ measurements' = IF table_name = "measurements"
                                  THEN DeleteWhereId(measurements, row_id)
                                  ELSE measurements
               /\ medications' = IF table_name = "medications"
                                 THEN DeleteWhereId(medications, row_id)
                                 ELSE medications
    /\ UNCHANGED sqlite_sequence
    /\ UNCHANGED chart_vars
    /\ UNCHANGED medication_names
    /\ UNCHANGED app_vars

\* ------------------------------------------------- table medication_names
\* A medication name is the sequence of its character codes: 32 is the space,
\* 65 is "A", 97 is "a", 98 is "b".
IsSpace(c) == c \in {9, 10, 13, 32}

RECURSIVE LStrip(_)
LStrip(s) == IF s # <<>> /\ IsSpace(Head(s)) THEN LStrip(Tail(s)) ELSE s

RECURSIVE RStrip(_)
RStrip(s) ==
    IF s # <<>> /\ IsSpace(s[Len(s)]) THEN RStrip(SubSeq(s, 1, Len(s) - 1)) ELSE s

\* str.strip()
Strip(s) == RStrip(LStrip(s))

\* mutant of CleanedName: the name kept as typed
CleanedName_Raw(name) == name

\* cleaned = name.strip(), lines 68 and 82
CleanedName(name) == Strip(name)

\* SQL LOWER(): the ASCII capitals folded
Lower(s) == [k \in 1..Len(s) |-> IF s[k] \in 65..90 THEN s[k] + 32 ELSE s[k]]

DbNameInputs == {<<>>, <<32>>, <<97>>, <<32, 97>>, <<65>>, <<98, 32>>}
DbNameIds == 1..MaxNameIds

NameRow(id, name) == [id |-> id, name |-> name]

\* mutant of InsertOrIgnore: a plain INSERT into a table without UNIQUE
InsertOrIgnore_Always(rows, id, name) == rows \cup {NameRow(id, name)}

\* INSERT OR IGNORE under name TEXT NOT NULL UNIQUE: a stored name (compared
\* byte by byte) makes the statement a no-op
InsertOrIgnore(rows, id, name) ==
    IF \E r \in rows : r.name = name THEN rows ELSE rows \cup {NameRow(id, name)}

\* SELECT id FROM medication_names WHERE name = ?, fetchone()
SelectIdByName(rows, name) == {r.id : r \in {q \in rows : q.name = name}}

\* the UPDATE of line 87 breaks UNIQUE when it would give the row a name that
\* another row holds
UpdateConflicts(rows, row_id, name) ==
    /\ \E r \in rows : r.id = row_id
    /\ \E r \in rows : r.id # row_id /\ r.name = name

\* SELECT id, name ... ORDER BY LOWER(name) ASC
SelectNames ==
    LET n == Cardinality(medication_names)
    IN  {s \in [1..n -> medication_names] :
            /\ \A i, j \in 1..n : i # j => s[i] # s[j]
            /\ \A i \in 1..(n - 1) : TextLessEq(Lower(s[i].name), Lower(s[i + 1].name))}

\* lines 67-78.  The engine draws the new id before it tests UNIQUE; whether
\* an ignored INSERT still uses that id up is left to the engine.
add_medication_name ==
    /\ \E name \in DbNameInputs :
          LET cleaned == CleanedName(name)
              lastrowid == NextRowId(medication_names, sqlite_sequence.medication_names)
              rows == InsertOrIgnore(medication_names, lastrowid, cleaned)
          IN  IF cleaned = <<>>
              THEN /\ last_call' = Call("add_medication_name", <<name>>, <<>>, <<"ValueError">>)
                   /\ UNCHANGED <<medication_names, sqlite_sequence>>
              ELSE /\ rows # medication_names =>
                          sqlite_sequence.medication_names < MaxNameIds
                   /\ medication_names' = rows
                   /\ \/ /\ sqlite_sequence.medication_names < MaxNameIds
                         /\ sqlite_sequence' =
                               [sqlite_sequence EXCEPT !.medication_names = lastrowid]
                      \/ /\ rows = medication_names
                         /\ UNCHANGED sqlite_sequence
                   /\ \E id \in SelectIdByName(rows, cleaned) :
                         last_call' = Call("add_medication_name", <<name>>, <<id>>, <<>>)
    /\ UNCHANGED <<measurements, medications>>
    /\ UNCHANGED chart_vars
    /\ UNCHANGED app_vars

\* lines 81-88; an sqlite3.IntegrityError leaves the with block, which rolls back
update_medication_name ==
    /\ \E row_id \in DbNameIds, name \in DbNameInputs :
          LET cleaned == CleanedName(name)
          IN  IF cleaned = <<>>
              THEN /\ last_call' = Call("update_medication_name", <<row_id, name>>,
                                        <<>>, <<"ValueError">>)
                   /\ UNCHANGED medication_names
              ELSE IF UpdateConflicts(medication_names, row_id, cleaned)
              THEN /\ last_call' = Call("update_medication_name", <<row_id, name>>,
                                        <<>>, <<"IntegrityError">>)
                   /\ UNCHANGED medication_names
              ELSE /\ last_call' = Call("update_medication_name", <<row_id, name>>,
                                        <<>>, <<>>)
                   /\ medication_names' =
                         UpdateWhereId(medication_names, row_id, NameRow(row_id, cleaned))
    /\ UNCHANGED <<measurements, medications, sqlite_sequence>>
    /\ UNCHANGED chart_vars
    /\ UNCHANGED app_vars

\* lines 91-93
delete_medication_name ==
    /\ \E row_id \in DbNameIds :
          /\ last_call' = Call("delete_medication_name", <<row_id>>, <<>>, <<>>)
          /\ medication_names' = DeleteWhereId(medication_names, row_id)
    /\ UNCHANGED <<measurements, medications, sqlite_sequence>>
    /\ UNCHANGED chart_vars
    /\ UNCHANGED app_vars

\* lines 59-64
fetch_medication_names ==
    /\ \E df \in SelectNames :
          last_call' = Call("fetch_medication_names", <<>>, <<df>>, <<>>)
    /\ UNCHANGED <<measurements, medications, medication_names, sqlite_sequence>>
    /\ UNCHANGED chart_vars
    /\ UNCHANGED app_vars

\* the database after initialize_database() on a fresh file; no chart is built
InitDb ==
    /\ measurements = {}
    /\ medications = {}
    /\ medication_names = {}
    /\ sqlite_sequence = [measurements |-> 0, medications |-> 0, medication_names |-> 0]
    /\ last_call = Call("initialize_database", <<>>, <<>>, <<>>)
    /\ last_deleted = <<>>
    /\ history = [click |-> "none", removed |-> {}]
    /\ measurements_df = <<>> /\ medications_df = <<>>
    /\ pc = "idle"
    /\ fig = EmptyFig
    /\ app_fig = EmptyFig
    /\ meds = <<>>
    /\ lane_last_time = <<>>
    /\ assigned_lanes = <<>>
    /\ max_lane_used = <<>>
    /\ hover_x = <<>> /\ hover_y = <<>> /\ hover_texts = <<>> /\ hover_ago = <<>>
    /\ now_reads = <<>>
    /\ error = <<>>
    /\ now = BuildTime /\ ticks_left = 0

NextDb ==
    \/ add_measurement
    \/ add_medication
    \/ update_measurement
    \/ update_medication
    \/ fetch_measurements
    \/ fetch_medications
    \/ delete_entry

SpecDb == InitDb /\ [][NextDb]_vars

NextNames ==
    \/ add_medication_name
    \/ update_medication_name
    \/ delete_medication_name
    \/ fetch_medication_names

SpecNames == InitDb /\ [][NextNames]_vars

\* ------------------------------------------------------------- claims on db
\* the minute of the day a stored text denotes (its last two digits are the
\* minutes, the digits before them the hour)
MinuteOfText(text) ==
    LET n == Len(text)
        hour == IF n = 4 THEN text[1] * 10 + text[2] ELSE text[1]
    IN  hour * 60 + text[n - 1] * 10 + text[n]

RowsOf(df) == {df[k] : k \in 1..Len(df)}

\* C18: after add_measurement(recorded_at, temperature_c, notes) every
\* fetch_measurements() holds exactly one row with the returned id, and that
\* row has the same recorded_at, temperature_c and notes (None stays null);
\* likewise add_medication and fetch_medications() for given_at, med_name,
\* dose_desc and notes.
C18_RoundTrip ==
    /\ last_call.op = "add_measurement" =>
          \A df \in SelectMeasurements(<<>>) :
              /\ Cardinality({k \in 1..Len(df) : df[k].id = last_call.returned[1]}) = 1
              /\ \A k \in 1..Len(df) :
                    df[k].id = last_call.returned[1] =>
                        /\ df[k].recorded_at = last_call.args[1]
                        /\ df[k].temperature_c.v = last_call.args[2].v
                        /\ df[k].notes = last_call.args[3]
    /\ last_call.op = "add_medication" =>
          \A df \in SelectMedications(<<>>) :
              /\ Cardinality({k \in 1..Len(df) : df[k].id = last_call.returned[1]}) = 1
              /\ \A k \in 1..Len(df) :
                    df[k].id = last_call.returned[1] =>
                        /\ df[k].given_at = last_call.args[1]
                        /\ df[k].med_name = last_call.args[2]
                        /\ df[k].dose_desc = last_call.args[3]
                        /\ df[k].notes = last_call.args[4]

\* a second reading just added, given as an int and with a note, next to a
\* stored reading without one
C18_Witness ==
    /\ last_call.op = "add_measurement"
    /\ last_call.returned = <<2>>
    /\ last_call.args[2].kind = "int"
    /\ last_call.args[3] = <<"morning">>
    /\ \E r \in measurements : r.id = 1 /\ r.notes = <<>>

\* C19: whatever adds, updates and deletes came before, fetch_measurements()
\* returns every current reading once, ascending in recorded_at, and
\* fetch_medications() every current medication event once, ascending in
\* given_at.
C19_FetchAscending ==
    /\ \A df \in SelectMeasurements(<<>>) :
          /\ RowsOf(df) = measurements
          /\ Len(df) = Cardinality(measurements)
          /\ \A i, j \in 1..Len(df) :
                i < j => MinuteOfText(df[i].recorded_at) <= MinuteOfText(df[j].recorded_at)
    /\ \A df \in SelectMedications(<<>>) :
          /\ RowsOf(df) = medications
          /\ Len(df) = Cardinality(medications)
          /\ \A i, j \in 1..Len(df) :
                i < j => MinuteOfText(df[i].given_at) <= MinuteOfText(df[j].given_at)
    /\ (last_call.op = "fetch_measurements" /\ last_call.args = <<<<>>>>) =>
          last_call.returned[1] \in SelectMeasurements(<<>>)
    /\ (last_call.op = "fetch_medications" /\ last_call.args = <<<<>>>>) =>
          last_call.returned[1] \in SelectMedications(<<>>)

\* a fetch that returns the row added second before the row added first
C19_Witness ==
    /\ last_call.op = "fetch_measurements"
    /\ last_call.args = <<<<>>>>
    /\ Len(last_call.returned[1]) = 2
    /\ last_call.returned[1][1].id = 2
    /\ last_call.returned[1][1].recorded_at = <<0, 9, 0, 0>>
    /\ last_call.returned[1][2].recorded_at = <<1, 0, 0, 0>>

OtherRows(rows, row_id) == {r \in rows : r.id # row_id}
RowsWithId(rows, row_id) == {r \in rows : r.id = row_id}

\* C20: update_measurement and update_medication replace the stored fields
\* of exactly the row with the given id (None stored as null), delete_entry
\* removes exactly that row of the named table; every other row of both
\* tables stays as it was, and deleting the only row leaves the table empty.
C20_UpdateDeleteFrame ==
    [][/\ last_call'.op = "update_measurement" =>
            LET a == last_call'.args
            IN  /\ medications' = medications
                /\ OtherRows(measurements', a[1]) = OtherRows(measurements, a[1])
                /\ Cardinality(measurements') = Cardinality(measurements)
                /\ RowsWithId(measurements, a[1]) # {} =>
                      \E r \in measurements' :
                          /\ RowsWithId(measurements', a[1]) = {r}
                          /\ r.recorded_at = a[2]
                          /\ r.temperature_c.v = a[3].v
                          /\ r.notes = a[4]
       /\ last_call'.op = "update_medication" =>
            LET a == last_call'.args
            IN  /\ measurements' = measurements
                /\ OtherRows(medications', a[1]) = OtherRows(medications, a[1])
                /\ Cardinality(medications') = Cardinality(medications)
                /\ RowsWithId(medications, a[1]) # {} =>
                      \E r \in medications' :
                          /\ RowsWithId(medications', a[1]) = {r}
                          /\ r.given_at = a[2]
                          /\ r.med_name = a[3]
                          /\ r.dose_desc = a[4]
                          /\ r.notes = a[5]
       /\ (last_call'.op = "delete_entry" /\ last_call'.args[1] = "measurements") =>
            /\ medications' = medications
            /\ measurements' = OtherRows(measurements, last_call'.args[2])
            /\ RowsWithId(measurements', last_call'.args[2]) = {}
            /\ (Cardinality(measurements) = 1
                  /\ RowsWithId(measurements, last_call'.args[2]) # {}) => measurements' = {}
       /\ (last_call'.op = "delete_entry" /\ last_call'.args[1] = "medications") =>
            /\ measurements' = measurements
            /\ medications' = OtherRows(medications, last_call'.args[2])
            /\ RowsWithId(medications', last_call'.args[2]) = {}
            /\ (Cardinality(medications) = 1
                  /\ RowsWithId(medications, last_call'.args[2]) # {}) => medications' = {}
      ]_vars

\* an update of reading 2 to a null note, beside reading 1 that keeps its note
C20_Witness ==
    /\ last_call.op = "update_measurement"
    /\ last_call.args[1] = 2
    /\ last_call.args[4] = <<>>
    /\ \E r \in measurements : r.id = 2 /\ r.notes = <<>>
    /\ \E r \in measurements : r.id = 1 /\ r.notes = <<"morning">>

\* a delete that emptied the medications table while a reading is stored
C20_WitnessDelete ==
    /\ last_call.op = "delete_entry"
    /\ last_call.args = <<"medications", 1>>
    /\ sqlite_sequence.medications = 1
    /\ medications = {}
    /\ measurements # {}

\* --------------------------------------------------- claims on medication names
NamesOf(df) == {df[k].name : k \in 1..Len(df)}
IdsOf(df) == {df[k].id : k \in 1..Len(df)}
StoredNames(row_id) == {r.name : r \in {q \in medication_names : q.id = row_id}}

\* C21 as stated: after add_medication_name(n) returns, the returned id and
\* the name n are in fetch_medication_names(); after update_medication_name(id,
\* n2) returns for a stored id, n2 is in it and the old name is not; after
\* delete_medication_name(id), id is not in it.
C21_NamesCrud ==
    [][/\ (last_call'.op = "add_medication_name" /\ last_call'.raised = <<>>) =>
            \A df \in SelectNames' :
                \E k \in 1..Len(df) :
                    df[k].id = last_call'.returned[1] /\ df[k].name = last_call'.args[1]
       /\ (/\ last_call'.op = "update_medication_name"
           /\ last_call'.raised = <<>>
           /\ StoredNames(last_call'.args[1]) # {}) =>
            \A df \in SelectNames' :
                /\ last_call'.args[2] \in NamesOf(df)
                /\ StoredNames(last_call'.args[1]) \cap NamesOf(df) = {}
       /\ last_call'.op = "delete_medication_name" =>
            \A df \in SelectNames' : last_call'.args[1] \notin IdsOf(df)
      ]_vars

\* C21, amended: the name that appears is the argument without its leading
\* and trailing whitespace, under the returned or given id; the old name is
\* absent unless the stripped new name equals it.
C21_NamesCrudStripped ==
    [][/\ (last_call'.op = "add_medication_name" /\ last_call'.raised = <<>>) =>
            \A df \in SelectNames' :
                \E k \in 1..Len(df) :
                    /\ df[k].id = last_call'.returned[1]
                    /\ df[k].name = Strip(last_call'.args[1])
       /\ (/\ last_call'.op = "update_medication_name"
           /\ last_call'.raised = <<>>
           /\ StoredNames(last_call'.args[1]) # {}) =>
            \A df \in SelectNames' :
                /\ \E k \in 1..Len(df) :
                      /\ df[k].id = last_call'.args[1]
                      /\ df[k].name = Strip(last_call'.args[2])
                /\ StoredNames(last_call'.args[1]) \cap NamesOf(df)
                      \subseteq {Strip(last_call'.args[2])}
       /\ last_call'.op = "delete_medication_name" =>
            \A df \in SelectNames' : last_call'.args[1] \notin IdsOf(df)
      ]_vars

\* row 1 just renamed from "a" to "b" by an argument with a trailing space,
\* beside a second row "A"
C21_Witness ==
    /\ last_call.op = "update_medication_name"
    /\ last_call.args = <<1, <<98, 32>>>>
    /\ last_call.raised = <<>>
    /\ medication_names = {NameRow(1, <<98>>), NameRow(2, <<65>>)}

\* the argument without its leading and trailing spaces, found by position
Trimmed(s) ==
    LET keep == {k \in 1..Len(s) : s[k] # 32}
    IN  IF keep = {} THEN <<>>
        ELSE LET lo == CHOOSE k \in keep : \A j \in keep : k <= j
                 hi == CHOOSE k \in keep : \A j \in keep : k >= j
             IN  SubSeq(s, lo, hi)

\* C25: add_medication_name with a name whose stripped form is stored returns
\* the id of the row that holds it and leaves medication_names as it was; the
\* stored names are pairwise distinct after every call; a name that is empty
\* once stripped raises ValueError and leaves the table as it was.
C25_AddNameIdempotent ==
    [][/\ last_call'.op = "add_medication_name" =>
            LET stripped == Trimmed(last_call'.args[1])
                holders == {r \in medication_names : r.name = stripped}
            IN  /\ stripped = <<>> =>
                      /\ last_call'.raised = <<"ValueError">>
                      /\ medication_names' = medication_names
                /\ (stripped # <<>> /\ holders # {}) =>
                      /\ last_call'.raised = <<>>
                      /\ \E r \in holders : last_call'.returned = <<r.id>>
                      /\ medication_names' = medication_names
                /\ (stripped # <<>> /\ holders = {}) =>
                      /\ Cardinality(medication_names') = Cardinality(medication_names) + 1
                      /\ \E r \in medication_names' :
                            r.name = stripped /\ last_call'.returned = <<r.id>>
       /\ \A r1, r2 \in medication_names' : r1.name = r2.name => r1 = r2
       /\ \A r1, r2 \in medication_names' : r1.id = r2.id => r1 = r2
      ]_vars

\* an add of " a" that returned the id of the stored row "a", the only row,
\* after the table had handed out a second id
C25_Witness ==
    /\ last_call.op = "add_medication_name"
    /\ last_call.args = <<<<32, 97>>>>
    /\ last_call.returned = <<1>>
    /\ medication_names = {NameRow(1, <<97>>)}
    /\ sqlite_sequence.medication_names = 2

\* an add of a blank name that raised
C25_WitnessBlank ==
    /\ last_call.op = "add_medication_name"
    /\ last_call.args = <<<<32>>>>
    /\ last_call.raised = <<"ValueError">>
    /\ medication_names # {}

\* --------------------------------------------------------- gridline labels
IsGridLabel(a) == a.yref = "paper" /\ ~a.showarrow
GridLabelsDrawn == SelectSeq(fig.annotations, IsGridLabel)

\* C22: each gridline carries one label, its time as "HH:MM"; the label is
\* emphasized (bold, font size 12) exactly when the hour is 00, 06, 12 or 18,
\* and is plain with font size 9 otherwise.
C22_GridLabels ==
    pc \notin {"temp_series", "gridlines", "raised", "idle"} =>
        /\ Len(GridLabelsDrawn) = Len(GridXs)
        /\ \A k \in 1..Len(GridXs) :
              LET a == GridLabelsDrawn[k]
                  hh == (GridXs[k] \div 60) % 24
                  mm == GridXs[k] % 60
                  two(n) == IF n < 10 THEN "0" \o ToString(n) ELSE ToString(n)
                  hhmm == two(hh) \o ":" \o two(mm)
              IN  /\ a.x = GridXs[k]
                  /\ hh \in {0, 6, 12, 18} => (a.text = "<b>" \o hhmm \o "</b>" /\ a.font_size = 12)
                  /\ hh \notin {0, 6, 12, 18} => (a.text = hhmm /\ a.font_size = 9)

\* a finished chart with an emphasized 06:00 label next to a plain 07:00 one
C22_Witness ==
    /\ pc = "done"
    /\ \E j, k \in 1..Len(GridLabelsDrawn) :
          /\ GridLabelsDrawn[j].text = "<b>06:00</b>" /\ GridLabelsDrawn[j].font_size = 12
          /\ GridLabelsDrawn[k].text = "07:00" /\ GridLabelsDrawn[k].font_size = 9

\* ------------------------------------------------------------ lane trackers
\* positions (in sorted order) of the events assigned to lane li so far
EventsInLane(lanes, li) == {k \in 1..Len(lanes) : lanes[k] = li}

\* C26: after each event is processed, a lane's tracker is unassigned if no
\* event was assigned to the lane and else the given_at of the latest event
\* assigned to it; no tracker value decreases; the first event in sorted
\* order gets lane 0; a lane above 0 gets its first event only after every
\* lane below it has got one.
C26_LaneTrackers ==
    [][LaneStep =>
        /\ \A li \in 0..2 :
              LET evs == EventsInLane(assigned_lanes', li)
              IN  IF evs = {}
                  THEN lane_last_time'[li + 1] = <<>>
                  ELSE LET last == CHOOSE k \in evs : \A j \in evs : j <= k
                       IN  lane_last_time'[li + 1] = <<meds[last].given_at>>
        /\ \A li \in 0..2 :
              lane_last_time[li + 1] # <<>> =>
                  /\ lane_last_time'[li + 1] # <<>>
                  /\ lane_last_time'[li + 1][1] >= lane_last_time[li + 1][1]
        /\ assigned_lanes'[1] = 0
        /\ LET k == Len(assigned_lanes')
               lane == assigned_lanes'[k]
           IN  EventsInLane(assigned_lanes, lane) = {} =>
                   \A lower \in 0..(lane - 1) : EventsInLane(assigned_lanes, lower) # {}
      ]_vars

\* four events: the first three opened lanes 0, 1 and 2 in that order and the
\* fourth overwrote the tracker of lane 0
C26_Witness ==
    /\ assigned_lanes = <<0, 1, 2, 0>>
    /\ lane_last_time[1] = <<meds[4].given_at>>
    /\ lane_last_time[2] = <<meds[2].given_at>>
    /\ lane_last_time[3] = <<meds[3].given_at>>
    /\ meds[4].given_at > meds[1].given_at

\* ------------------------------------------------------ the two chart builders
MarkerStyles(f) ==
    [k \in 1..Len(f.data) |-> <<f.data[k].marker_size, f.data[k].marker_color>>]
AnnotationTexts(f) ==
    [k \in 1..Len(f.annotations) |->
        <<f.annotations[k].x, f.annotations[k].y, f.annotations[k].text>>]
HoverEntries(f) ==
    [k \in 1..Len(f.data) |->
        <<f.data[k].x, f.data[k].y, f.data[k].text, f.data[k].customdata>>]

\* C23: for the same readings, medications and clock values, the figure of
\* app._build_temperature_figure has the marker styles, gridlines and
\* threshold line (the shapes), annotation positions and texts, hover entries
\* and y-axis range of the figure of charts.build_temperature_figure.
C23_BuildersEquivalent ==
    pc = "done" =>
        /\ MarkerStyles(app_fig) = MarkerStyles(fig)
        /\ app_fig.shapes = fig.shapes
        /\ AnnotationTexts(app_fig) = AnnotationTexts(fig)
        /\ HoverEntries(app_fig) = HoverEntries(fig)
        /\ app_fig.yaxis_range = fig.yaxis_range

\* ================================================== app.py: the "Data" tab
\* Texts typed into the forms and stored in notes, dose_desc and med_name are
\* sequences of character codes (32 is the space); a column that may be NULL
\* holds <<>> or <<text>>.

\* `x or None`
OrNone(text) == IF text = <<>> THEN <<>> ELSE <<text>>

\* (str(v).strip() if pd.notna(v) and str(v).strip() else None)
PayloadText(v) == IF v = <<>> THEN <<>> ELSE OrNone(Strip(v[1]))

\* pd.to_datetime(column).dt.strftime("%Y-%m-%d %H:%M"): the text shown in the editor
DisplayTime(text) == IsoMinutes(MinuteOfText(text))

\* _to_iso_minutes_string: a text that parses is written as "YYYY-MM-DDTHH:MM",
\* any other text is returned as it is
ToIsoMinutesString(text) ==
    IF Len(text) \in {3, 4} THEN IsoMinutes(MinuteOfText(text)) ELSE text

AppTimes == {545}
AppTemps == {[kind |-> "float", v |-> 3820]}
AppNoteInputs == {<<>>, <<110>>, <<32, 110>>, <<32>>}
AppDoseInputs == {<<>>, <<49, 32>>}
AppMedNames == {<<80>>}

\* one entry of the undo payload, lines 390-395, built from a row of the editor
MeasurementPayload(row) ==
    [id |-> row.id,
     recorded_at |-> ToIsoMinutesString(DisplayTime(row.recorded_at)),
     temperature_c |-> PyFloat(row.temperature_c),
     notes |-> PayloadText(row.notes)]

\* lines 499-505
MedicationPayload(row) ==
    [id |-> row.id,
     given_at |-> ToIsoMinutesString(DisplayTime(row.given_at)),
     med_name |-> row.med_name,
     dose_desc |-> PayloadText(row.dose_desc),
     notes |-> PayloadText(row.notes)]

\* lines 341-342: one add_measurement per payload row, in order
RECURSIVE RestoreMeasurements(_, _, _)
RestoreMeasurements(rows, seq, payload_rows) ==
    IF payload_rows = <<>> THEN [rows |-> rows, seq |-> seq]
    ELSE LET row == Head(payload_rows)
             lastrowid == NextRowId(rows, seq)
         IN  RestoreMeasurements(
                 rows \cup {MeasurementRow(lastrowid, row.recorded_at,
                                           row.temperature_c, row.notes)},
                 lastrowid, Tail(payload_rows))

\* lines 344-345
RECURSIVE RestoreMedications(_, _, _)
RestoreMedications(rows, seq, payload_rows) ==
    IF payload_rows = <<>> THEN [rows |-> rows, seq |-> seq]
    ELSE LET row == Head(payload_rows)
             lastrowid == NextRowId(rows, seq)
         IN  RestoreMedications(
                 rows \cup {MedicationRow(lastrowid, row.given_at, row.med_name,
                                          row.dose_desc, row.notes)},
                 lastrowid, Tail(payload_rows))

IdsHandedOut == sqlite_sequence.measurements + sqlite_sequence.medications

\* lines 42-58: the "Add measurement" form
render_add_measurement_form ==
    /\ IdsHandedOut < MaxAppRows
    /\ \E t \in AppTimes, temp_c \in AppTemps, notes \in AppNoteInputs :
          LET lastrowid == NextRowId(measurements, sqlite_sequence.measurements)
              recorded_at == IsoMinutes(t)
          IN  /\ measurements' = measurements \cup
                    {MeasurementRow(lastrowid, recorded_at, temp_c, OrNone(notes))}
              /\ sqlite_sequence' = [sqlite_sequence EXCEPT !.measurements = lastrowid]
              /\ last_call' = Call("add_measurement",
                                   <<recorded_at, temp_c, OrNone(notes)>>, <<lastrowid>>, <<>>)
    /\ history' = [history EXCEPT !.click = "measurement_form"]
    /\ UNCHANGED <<medications, medication_names, last_deleted>>
    /\ UNCHANGED chart_vars

\* lines 61-92: the "Add medication" form with a name picked from the list
render_add_medication_form ==
    /\ IdsHandedOut < MaxAppRows
    /\ \E t \in AppTimes, med_name \in AppMedNames,
          dose_desc \in AppDoseInputs, notes \in AppDoseInputs :
          LET lastrowid == NextRowId(medications, sqlite_sequence.medications)
              given_at == IsoMinutes(t)
              args == <<given_at, Strip(med_name), OrNone(Strip(dose_desc)),
                        OrNone(Strip(notes))>>
          IN  /\ Strip(med_name) # <<>>
              /\ medications' = medications \cup
                    {MedicationRow(lastrowid, args[1], args[2], args[3], args[4])}
              /\ sqlite_sequence' = [sqlite_sequence EXCEPT !.medications = lastrowid]
              /\ last_call' = Call("add_medication", args, <<lastrowid>>, <<>>)
    /\ history' = [history EXCEPT !.click = "medication_form"]
    /\ UNCHANGED <<measurements, medication_names, last_deleted>>
    /\ UNCHANGED chart_vars

\* lines 364-403: "Delete selected measurements" with at least one row ticked
\* and the cells of the editor left as shown
delete_selected_measurements ==
    /\ \E del_src \in SelectMeasurements(<<>>) :
          \E ticks \in (SUBSET (1..Len(del_src))) \ {{}} :
              LET to_delete == [k \in 1..Cardinality(ticks) |->
                                   del_src[CHOOSE i \in ticks :
                                       Cardinality({j \in ticks : j < i}) = k - 1]]
                  ids == {to_delete[k].id : k \in 1..Len(to_delete)}
              IN  /\ last_deleted' =
                        <<[table |-> "measurements",
                           rows |-> [k \in 1..Len(to_delete) |->
                                        MeasurementPayload(to_delete[k])]]>>
                  /\ measurements' = {r \in measurements : r.id \notin ids}
                  /\ last_call' = Call("delete_entry",
                                       <<"measurements", to_delete[Len(to_delete)].id>>,
                                       <<>>, <<>>)
                  /\ history' = [click |-> "btn_delete_measurements",
                                 removed |-> {r \in measurements : r.id \in ids}]
    /\ UNCHANGED <<medications, medication_names, sqlite_sequence>>
    /\ UNCHANGED chart_vars

\* lines 466-513: "Delete selected medications"
delete_selected_medications ==
    /\ \E del_src_m \in SelectMedications(<<>>) :
          \E ticks \in (SUBSET (1..Len(del_src_m))) \ {{}} :
              LET to_delete_m == [k \in 1..Cardinality(ticks) |->
                                     del_src_m[CHOOSE i \in ticks :
                                         Cardinality({j \in ticks : j < i}) = k - 1]]
                  ids == {to_delete_m[k].id : k \in 1..Len(to_delete_m)}
              IN  /\ last_deleted' =
                        <<[table |-> "medications",
                           rows |-> [k \in 1..Len(to_delete_m) |->
                                        MedicationPayload(to_delete_m[k])]]>>
                  /\ medications' = {r \in medications : r.id \notin ids}
                  /\ last_call' = Call("delete_entry",
                                       <<"medications", to_delete_m[Len(to_delete_m)].id>>,
                                       <<>>, <<>>)
                  /\ history' = [click |-> "btn_delete_medications",
                                 removed |-> {r \in medications : r.id \in ids}]
    /\ UNCHANGED <<measurements, medication_names, sqlite_sequence>>
    /\ UNCHANGED chart_vars

\* lines 335-348: "Undo last delete"
undo_delete ==
    /\ last_deleted # <<>>
    /\ LET payload == last_deleted[1]
           n == Len(payload.rows)
           last == payload.rows[n]
       IN  /\ IdsHandedOut + n <= MaxAppRows
           /\ IF payload.table = "measurements"
              THEN LET res == RestoreMeasurements(measurements,
                                  sqlite_sequence.measurements, payload.rows)
                   IN  /\ measurements' = res.rows
                       /\ sqlite_sequence' =
                             [sqlite_sequence EXCEPT !.measurements = res.seq]
                       /\ last_call' = Call("add_measurement",
                             <<last.recorded_at, last.temperature_c, last.notes>>,
                             <<res.seq>>, <<>>)
                       /\ UNCHANGED medications
              ELSE LET res == RestoreMedications(medications,
                                  sqlite_sequence.medications, payload.rows)
                   IN  /\ medications' = res.rows
                       /\ sqlite_sequence' =
                             [sqlite_sequence EXCEPT !.medications = res.seq]
                       /\ last_call' = Call("add_medication",
                             <<last.given_at, last.med_name, last.dose_desc, last.notes>>,
                             <<res.seq>>, <<>>)
                       /\ UNCHANGED measurements
    /\ last_deleted' = <<>>
    /\ history' = [history EXCEPT !.click = "undo_delete"]
    /\ UNCHANGED medication_names
    /\ UNCHANGED chart_vars

NextApp ==
    \/ render_add_measurement_form
    \/ render_add_medication_form
    \/ delete_selected_measurements
    \/ delete_selected_medications
    \/ undo_delete

SpecApp == InitDb /\ [][NextApp]_vars

\* ----------------------------------------------------- delete followed by undo
\* C24: when "Undo last delete" is pressed after "Delete selected" removed a
\* batch of rows, the table again holds, for every removed row, a row with the
\* same timestamp and value fields (the id may be new), the other table is
\* as it was, and last_deleted is None again.
C24_DeleteUndoRestores ==
    [][history'.click = "undo_delete" =>
        /\ last_deleted' = <<>>
        /\ last_deleted[1].table = "measurements" =>
              /\ medications' = medications
              /\ \A r \in history.removed :
                    \E q \in measurements' :
                        /\ q.recorded_at = r.recorded_at
                        /\ q.temperature_c.v = r.temperature_c.v
                        /\ q.notes = r.notes
        /\ last_deleted[1].table = "medications" =>
              /\ measurements' = measurements
              /\ \A r \in history.removed :
                    \E q \in medications' :
                        /\ q.given_at = r.given_at
                        /\ q.med_name = r.med_name
                        /\ q.dose_desc = r.dose_desc
                        /\ q.notes = r.notes
      ]_vars
====
